---- MODULE Spec2Model ----
(***************************************************************************)
(* Model of contracts/random/src/contract.rs: the instantiate and execute  *)
(* entry points of the cell-field contract, the storage they write         *)
(* (FIELD_SIZE, NETWORK_CONFIGS, CONFIG, CELLS) and the host that commits  *)
(* a handler's writes only when the handler returns Ok.                    *)
(***************************************************************************)
EXTENDS Integers, Sequences, FiniteSets, TLC

VARIABLES
    block,      \* env.block of the next request: [height, time]
    storage,    \* the contract's committed storage
    phase,      \* "fresh" (not instantiated), "live", "failed" (instantiate returned Err)
    last,       \* the last request handled: its inputs, result, writes and engine calls
    requests,   \* number of execute requests handled so far
    runs        \* SpecTwoRuns only: two independent instantiations, run -> record

vars == <<block, storage, phase, last, requests, runs>>

----------------------------------------------------------------------------
(* Bounds of the model *)

MaxHeight == 2
MaxRequests == 1
MaxConfigs == 2

----------------------------------------------------------------------------
(* Rust values *)

None == <<>>
Some(v) == <<v>>
is_none(o) == o = None
unwrap_or(o, d) == IF o = None THEN d ELSE o[1]

U8_MAX == 255
U16 == 65536

\* pub const ONE_DAY : u64 = 24 * 3600; (no u64 product of the model comes near 2^64)
ONE_DAY == 24 * 3600

DefaultFieldSize == 64

\* str::starts_with on strings held as sequences of characters
starts_with(s, prefix) ==
    /\ Len(s) >= Len(prefix)
    /\ SubSeq(s, 1, Len(prefix)) = prefix

IbcPrefix == <<"i", "b", "c", "/">>

\* Keymap: a finite map key -> item
EmptyMap == [k \in {} |-> None]
insert(map, key, item) ==
    [k \in (DOMAIN map) \cup {key} |-> IF k = key THEN item ELSE map[k]]

----------------------------------------------------------------------------
(* Storage and the handler's working context *)

EmptyStorage ==
    [ field_size      |-> None,
      network_configs |-> EmptyMap,
      config          |-> None,
      cells           |-> EmptyMap,
      user_last_open  |-> EmptyMap,
      powerups        |-> EmptyMap ]

\* A handler works on deps.storage and leaves a trail of the keys it wrote.
Ctx(st) == [storage |-> st, writes |-> <<>>, calls |-> <<>>]

Write(ctx, store, key, st) ==
    [ctx EXCEPT !.storage = st,
                !.writes = Append(@, [store |-> store, key |-> key])]

Ok(ctx) == [result |-> "Ok", ctx |-> ctx]
Err(kind, ctx) == [result |-> kind, ctx |-> ctx]

----------------------------------------------------------------------------
(* Helpers of utils.rs, field.rs and random.rs, and the rand_chacha stream *)

MaxFieldSize == 64

valid_field_size(n) == n >= 1 /\ n <= MaxFieldSize

is_powerup_list_unique(list) ==
    \A i, j \in 1..Len(list) : i # j => list[i] # list[j]

is_chain_id_list_unique(list) ==
    \A i, j \in 1..Len(list) : i # j => list[i] # list[j]

AddrCode(addr) ==
    CASE addr = "alice" -> 97
      [] addr = "bob"   -> 7919
      [] OTHER          -> 1

\* The seed mixes the block and the initializer's identity and nothing else.
randomness_seed(blk, sender) ==
    (blk.height * 8191 + (blk.time % 65521) * 31 + AddrCode(sender)) % U16

\* ChaChaRng: a deterministic word stream, a function of the seed and the
\* number of words drawn so far. The words of this stream are u32 values
\* below 2^16.
from_seed(seed) == [seed |-> seed, pos |-> 0]

next_u32(ring) ==
    [ value |-> (ring.seed * 251 + (ring.pos + 1) * 7919 + 12345) % U16,
      ring  |-> [ring EXCEPT !.pos = @ + 1] ]

\* the value of the n-th call of next_u32 on ring (n >= 1)
nth_u32(ring, n) == next_u32([ring EXCEPT !.pos = @ + (n - 1)]).value

----------------------------------------------------------------------------
(* instantiate *)

\* mutant: FIELD_SIZE is saved before the size is validated
instantiate_field_size_save_first(ctx, msg) ==
    LET field_size == unwrap_or(msg.field_size, DefaultFieldSize)
        saved == Write(ctx, "FIELD_SIZE", "",
                       [ctx.storage EXCEPT !.field_size = Some(field_size)])
    IN
    IF ~valid_field_size(field_size)
    THEN [err |-> "InvalidFieldSize", ctx |-> saved, field_size |-> field_size]
    ELSE [err |-> "", ctx |-> saved, field_size |-> field_size]

\* lines 42-48: the field size
instantiate_field_size(ctx, msg) ==
    LET field_size == unwrap_or(msg.field_size, DefaultFieldSize) IN
    IF ~valid_field_size(field_size)
    THEN [err |-> "InvalidFieldSize", ctx |-> ctx, field_size |-> field_size]
    ELSE [ err |-> "",
           ctx |-> Write(ctx, "FIELD_SIZE", "",
                         [ctx.storage EXCEPT !.field_size = Some(field_size)]),
           field_size |-> field_size ]

\* mutant: the denomination is pushed to chain_ids instead of the chain id
instantiate_network_config_push_denom(acc, denom, configs) ==
    LET chain_ids == Append(acc.chain_ids, denom)
        powerup_list == [i \in 1..Len(configs.power_ups) |-> configs.power_ups[i][1]]
    IN
    IF Len(configs.power_ups) # 3 \/ ~is_powerup_list_unique(powerup_list)
    THEN [acc EXCEPT !.err = "InvalidPowerupAmounts", !.chain_ids = chain_ids]
    ELSE IF starts_with(denom, IbcPrefix) /\ is_none(configs.channel_id)
    THEN [acc EXCEPT !.err = "MissingChannelId", !.chain_ids = chain_ids]
    ELSE [acc EXCEPT
            !.chain_ids = chain_ids,
            !.ctx = Write(acc.ctx, "NETWORK_CONFIGS", denom,
                          [acc.ctx.storage EXCEPT
                              !.network_configs = insert(@, denom, configs)])]

\* mutant: power_ups.len() < 3 instead of != 3
instantiate_network_config_len_lt(acc, denom, configs) ==
    LET chain_ids == Append(acc.chain_ids, configs.chain_id)
        powerup_list == [i \in 1..Len(configs.power_ups) |-> configs.power_ups[i][1]]
    IN
    IF Len(configs.power_ups) < 3 \/ ~is_powerup_list_unique(powerup_list)
    THEN [acc EXCEPT !.err = "InvalidPowerupAmounts", !.chain_ids = chain_ids]
    ELSE IF starts_with(denom, IbcPrefix) /\ is_none(configs.channel_id)
    THEN [acc EXCEPT !.err = "MissingChannelId", !.chain_ids = chain_ids]
    ELSE [acc EXCEPT
            !.chain_ids = chain_ids,
            !.ctx = Write(acc.ctx, "NETWORK_CONFIGS", denom,
                          [acc.ctx.storage EXCEPT
                              !.network_configs = insert(@, denom, configs)])]

\* mutant: denom == "ibc/" instead of denom.starts_with("ibc/")
instantiate_network_config_denom_eq(acc, denom, configs) ==
    LET chain_ids == Append(acc.chain_ids, configs.chain_id)
        powerup_list == [i \in 1..Len(configs.power_ups) |-> configs.power_ups[i][1]]
    IN
    IF Len(configs.power_ups) # 3 \/ ~is_powerup_list_unique(powerup_list)
    THEN [acc EXCEPT !.err = "InvalidPowerupAmounts", !.chain_ids = chain_ids]
    ELSE IF denom = IbcPrefix /\ is_none(configs.channel_id)
    THEN [acc EXCEPT !.err = "MissingChannelId", !.chain_ids = chain_ids]
    ELSE [acc EXCEPT
            !.chain_ids = chain_ids,
            !.ctx = Write(acc.ctx, "NETWORK_CONFIGS", denom,
                          [acc.ctx.storage EXCEPT
                              !.network_configs = insert(@, denom, configs)])]

\* lines 56-69: the body of the loop over msg.network_configs, for one entry;
\* acc is [err, ctx, chain_ids]
instantiate_network_config(acc, denom, configs) ==
    LET chain_ids == Append(acc.chain_ids, configs.chain_id)
        powerup_list == [i \in 1..Len(configs.power_ups) |-> configs.power_ups[i][1]]
    IN
    IF Len(configs.power_ups) # 3 \/ ~is_powerup_list_unique(powerup_list)
    THEN [acc EXCEPT !.err = "InvalidPowerupAmounts", !.chain_ids = chain_ids]
    ELSE IF starts_with(denom, IbcPrefix) /\ is_none(configs.channel_id)
    THEN [acc EXCEPT !.err = "MissingChannelId", !.chain_ids = chain_ids]
    ELSE [acc EXCEPT
            !.chain_ids = chain_ids,
            !.ctx = Write(acc.ctx, "NETWORK_CONFIGS", denom,
                          [acc.ctx.storage EXCEPT
                              !.network_configs = insert(@, denom, configs)])]

\* lines 52-70: the loop; an Err returned by the body ends it
RECURSIVE instantiate_network_configs(_, _, _)
instantiate_network_configs(acc, list, i) ==
    IF i > Len(list) \/ acc.err # ""
    THEN acc
    ELSE instantiate_network_configs(
             instantiate_network_config(acc, list[i][1], list[i][2]), list, i + 1)

\* mutant: the uniqueness of chain_ids is not checked
instantiate_chain_ids_unchecked(chain_ids) == ""

\* lines 72-74
instantiate_chain_ids(chain_ids) ==
    IF ~is_chain_id_list_unique(chain_ids) THEN "DuplicateChainIds" ELSE ""

\* mutant: the default win threshold computed in u8, (255 * 2 - 20) mod 2^8
instantiate_config_u8(ctx, msg) ==
    LET cell_cooldown == unwrap_or(msg.cell_cooldown, 2 * ONE_DAY)
        user_cooldown == unwrap_or(msg.user_cooldown, ONE_DAY)
        win_threshold == unwrap_or(msg.win_threshold, (U8_MAX * 2 - 20) % 256)
    IN Write(ctx, "CONFIG", "",
             [ctx.storage EXCEPT !.config =
                 Some([ win_threshold |-> win_threshold,
                        cell_cooldown |-> cell_cooldown,
                        user_cooldown |-> user_cooldown ])])

\* lines 76-87: the global config
instantiate_config(ctx, msg) ==
    LET cell_cooldown == unwrap_or(msg.cell_cooldown, 2 * ONE_DAY)
        user_cooldown == unwrap_or(msg.user_cooldown, ONE_DAY)
        win_threshold == unwrap_or(msg.win_threshold,
                                   ((U8_MAX % U16) * 2 - 20) % U16)
    IN Write(ctx, "CONFIG", "",
             [ctx.storage EXCEPT !.config =
                 Some([ win_threshold |-> win_threshold,
                        cell_cooldown |-> cell_cooldown,
                        user_cooldown |-> user_cooldown ])])

\* mutant: the word reduced modulo 256 instead of u8::MAX
instantiate_cells_loop_mod256(ctx, env, ring, field_size) ==
    LET ids == 1..((field_size + 1) - 1)
        cell(i) == [ random  |-> nth_u32(ring, i) % 256,
                     open_at |-> env.block.time ]
    IN [ctx EXCEPT
          !.storage.cells = [i \in (DOMAIN @) \cup ids |->
                                IF i \in ids THEN cell(i) ELSE @[i]],
          !.writes = @ \o [i \in ids |-> [store |-> "CELLS", key |-> i]]]

\* lines 93-98: the loop for i in 1..(field_size+1). Turn i draws one word,
\* so cell i holds the i-th word of the stream, reduced and cast to u8.
instantiate_cells_loop(ctx, env, ring, field_size) ==
    LET ids == 1..((field_size + 1) - 1)
        cell(i) == [ random  |-> (nth_u32(ring, i) % U8_MAX) % 256,
                     open_at |-> env.block.time ]
    IN [ctx EXCEPT
          !.storage.cells = [i \in (DOMAIN @) \cup ids |->
                                IF i \in ids THEN cell(i) ELSE @[i]],
          !.writes = @ \o [i \in ids |-> [store |-> "CELLS", key |-> i]]]

\* mutant: the stored cell cooldown is mixed into the seed
instantiate_cells_config_seed(ctx, env, info, field_size) ==
    instantiate_cells_loop(ctx, env,
        from_seed((randomness_seed(env.block, info.sender)
                   + ctx.storage.config[1].cell_cooldown) % U16), field_size)

\* lines 89-98: the generator seeded from the block and the sender, then the loop
instantiate_cells(ctx, env, info, field_size) ==
    instantiate_cells_loop(ctx, env,
        from_seed(randomness_seed(env.block, info.sender)), field_size)

\* lines 35-106
instantiate(ctx, env, info, msg) ==
    LET fs == instantiate_field_size(ctx, msg) IN
    IF fs.err # "" THEN Err(fs.err, fs.ctx)
    ELSE
    LET nc == instantiate_network_configs(
                  [err |-> "", ctx |-> fs.ctx, chain_ids |-> <<>>],
                  msg.network_configs, 1) IN
    IF nc.err # "" THEN Err(nc.err, nc.ctx)
    ELSE
    LET dup == instantiate_chain_ids(nc.chain_ids) IN
    IF dup # "" THEN Err(dup, nc.ctx)
    ELSE Ok(instantiate_cells(instantiate_config(nc.ctx, msg), env, info, fs.field_size))

----------------------------------------------------------------------------
(* execute *)

\* utils.rs: the permit's signer when the permit verifies. It is handed
\* deps.as_ref(), a read-only view: it cannot write storage.
address_from_permit(st, env, permit) ==
    IF permit.valid
    THEN [err |-> "", addr |-> permit.signer]
    ELSE [err |-> "Unauthorized", addr |-> ""]

Call(ctx, fn, user) ==
    [ctx EXCEPT !.calls = Append(@, [fn |-> fn, user |-> user])]

\* field.rs: the cell-opening engine, up to its cooldown checks and commit
try_opening_cell(ctx0, env, user, cell_id, powerups, power_up_autopay, funds) ==
    LET ctx == Call(ctx0, "try_opening_cell", user)
        st == ctx.storage
        now == env.block.time
    IN
    IF cell_id \notin DOMAIN st.cells THEN Err("CellNotFound", ctx)
    ELSE IF now < st.cells[cell_id].open_at THEN Err("CellOnCooldown", ctx)
    ELSE IF /\ user \in DOMAIN st.user_last_open
            /\ now < st.user_last_open[user] + st.config[1].user_cooldown
    THEN Err("UserOnCooldown", ctx)
    ELSE IF funds \notin DOMAIN st.network_configs THEN Err("UnsupportedCurrency", ctx)
    ELSE
    LET opened == Write(ctx, "CELLS", cell_id,
                    [st EXCEPT !.cells[cell_id].open_at =
                                   now + st.config[1].cell_cooldown])
    IN Ok(Write(opened, "USER_LAST_OPEN", user,
                [opened.storage EXCEPT !.user_last_open = insert(@, user, now)]))

\* powerups.rs: the purchase path of the powerup ledger
try_buying_powerups(ctx0, user, powerups, funds) ==
    LET ctx == Call(ctx0, "try_buying_powerups", user)
        st == ctx.storage
        have == IF user \in DOMAIN st.powerups THEN st.powerups[user] ELSE 0
    IN
    IF funds \notin DOMAIN st.network_configs THEN Err("UnsupportedCurrency", ctx)
    ELSE Ok(Write(ctx, "POWERUPS", user,
                  [st EXCEPT !.powerups = insert(@, user, have + Len(powerups))]))

\* mutant: the engine is handed info.sender instead of the permit's address
execute_as_info_sender(ctx, env, info, msg) ==
    CASE msg.type = "OpenCell" ->
            LET sender == address_from_permit(ctx.storage, env, msg.permit) IN
            IF sender.err # "" THEN Err(sender.err, ctx)
            ELSE try_opening_cell(ctx, env, info.sender, msg.cell_id,
                                  msg.powerups, msg.power_up_autopay, info.funds)
      [] msg.type = "BuyPowerups" ->
            LET sender == address_from_permit(ctx.storage, env, msg.permit) IN
            IF sender.err # "" THEN Err(sender.err, ctx)
            ELSE try_buying_powerups(ctx, info.sender, msg.powerups, info.funds)

\* lines 110-170, the OpenCell and BuyPowerups arms
execute(ctx, env, info, msg) ==
    CASE msg.type = "OpenCell" ->
            LET sender == address_from_permit(ctx.storage, env, msg.permit) IN
            IF sender.err # "" THEN Err(sender.err, ctx)
            ELSE try_opening_cell(ctx, env, sender.addr, msg.cell_id,
                                  msg.powerups, msg.power_up_autopay, info.funds)
      [] msg.type = "BuyPowerups" ->
            LET sender == address_from_permit(ctx.storage, env, msg.permit) IN
            IF sender.err # "" THEN Err(sender.err, ctx)
            ELSE try_buying_powerups(ctx, sender.addr, msg.powerups, info.funds)

----------------------------------------------------------------------------
(* The host: one request at a time, its writes committed only on Ok *)

Commit(st, res) == IF res.result = "Ok" THEN res.ctx.storage ELSE st

----------------------------------------------------------------------------
(* Inputs *)

Senders == {"alice", "bob"}

Native == <<"u", "s", "c", "r", "t">>
Bridged == <<"i", "b", "c", "/", "A">>
ChainIds == {"secret-4", "osmosis-1"}

PowerupLists ==
    { << <<"Shovel", 10>>, <<"Clover", 20>>, <<"Fertilizer", 30>> >>,
      << <<"Shovel", 10>>, <<"Clover", 20>>, <<"Shovel", 30>> >>,
      << <<"Shovel", 10>>, <<"Clover", 20>> >>,
      << <<"Shovel", 10>>, <<"Clover", 20>>, <<"Fertilizer", 30>>, <<"Bonus", 40>> >> }

DenomChannels ==
    { <<Native, None>>, <<Bridged, None>>, <<Bridged, Some("channel-1")>> }

NetworkConfigEntries ==
    { << dc[1], [chain_id |-> c, channel_id |-> dc[2], power_ups |-> p] >> :
        dc \in DenomChannels, c \in ChainIds, p \in PowerupLists }

RECURSIVE ListsOfLen(_, _)
ListsOfLen(S, n) ==
    IF n = 0 THEN {<<>>}
    ELSE {Append(l, e) : l \in ListsOfLen(S, n - 1), e \in S}

ListsUpTo(S, n) == UNION {ListsOfLen(S, k) : k \in 0..n}

FieldSizes == {None, Some(0), Some(1), Some(3), Some(MaxFieldSize + 1)}

Tunables ==
    { [cell_cooldown |-> None, user_cooldown |-> None, win_threshold |-> None],
      [cell_cooldown |-> Some(3 * ONE_DAY), user_cooldown |-> Some(0),
       win_threshold |-> Some(100)],
      [cell_cooldown |-> None, user_cooldown |-> Some(ONE_DAY + 1),
       win_threshold |-> None] }

InstantiateMsg(fs, ncs, t) ==
    [ field_size      |-> fs,
      network_configs |-> ncs,
      cell_cooldown   |-> t.cell_cooldown,
      user_cooldown   |-> t.user_cooldown,
      win_threshold   |-> t.win_threshold ]

NetworkConfigLists == ListsUpTo(NetworkConfigEntries, MaxConfigs)

----------------------------------------------------------------------------
(* Inputs of execute *)

Permits ==
    { [signer |-> "alice", valid |-> TRUE],
      [signer |-> "bob", valid |-> TRUE],
      [signer |-> "alice", valid |-> FALSE] }

CellIds == {1, 4}

ExecuteMsgs ==
    { [ type |-> "OpenCell", permit |-> p, cell_id |-> c,
        powerups |-> <<>>, power_up_autopay |-> FALSE ] :
        p \in Permits, c \in CellIds }
    \cup
    { [ type |-> "BuyPowerups", permit |-> p, powerups |-> <<"Shovel">> ] :
        p \in Permits }

----------------------------------------------------------------------------
(* Inputs of the two independent instantiations *)

RunBlocks ==
    { [height |-> 1, time |-> 1700000000],
      [height |-> 2, time |-> 1700000006] }

RunConfigs ==
    { <<>>,
      << <<Native, [ chain_id |-> "secret-4", channel_id |-> None,
                     power_ups |-> << <<"Shovel", 10>>, <<"Clover", 20>>,
                                      <<"Fertilizer", 30>> >> ]>> >> }

RunMsgs ==
    { InstantiateMsg(fs, ncs, t) :
        fs \in {None, Some(0), Some(2), Some(3)},
        ncs \in RunConfigs,
        t \in Tunables }

NoRun == [result |-> "none"]

----------------------------------------------------------------------------
(* Actions *)

NoRequest == [kind |-> "none"]

Request(kind, env, info, msg, res) ==
    [ kind   |-> kind,
      env    |-> env,
      info   |-> info,
      msg    |-> msg,
      result |-> res.result,
      writes |-> res.ctx.writes,
      calls  |-> res.ctx.calls ]

Init ==
    /\ block = [height |-> 1, time |-> 1700000000]
    /\ storage = EmptyStorage
    /\ phase = "fresh"
    /\ last = NoRequest
    /\ requests = 0
    /\ runs = [k \in 1..2 |-> NoRun]

\* the chain moves on while the contract is live
AdvanceBlock ==
    /\ phase = "live"
    /\ block.height < MaxHeight
    /\ block' = [height |-> block.height + 1, time |-> block.time + ONE_DAY]
    /\ UNCHANGED <<storage, phase, last, requests, runs>>

Instantiate ==
    /\ phase = "fresh"
    /\ \E sender \in Senders, fs \in FieldSizes,
          ncs \in NetworkConfigLists, t \in Tunables :
        LET env == [block |-> block]
            info == [sender |-> sender]
            msg == InstantiateMsg(fs, ncs, t)
            res == instantiate(Ctx(storage), env, info, msg)
        IN /\ storage' = Commit(storage, res)
           /\ phase' = IF res.result = "Ok" THEN "live" ELSE "failed"
           /\ last' = Request("instantiate", env, info, msg, res)
    /\ UNCHANGED <<block, requests, runs>>

Execute ==
    /\ phase = "live"
    /\ requests < MaxRequests
    /\ \E sender \in Senders, msg \in ExecuteMsgs :
        LET env == [block |-> block]
            info == [sender |-> sender, funds |-> Native]
            res == execute(Ctx(storage), env, info, msg)
        IN /\ storage' = Commit(storage, res)
           /\ last' = Request("execute", env, info, msg, res)
    /\ requests' = requests + 1
    /\ UNCHANGED <<block, phase, runs>>

Next == AdvanceBlock \/ Instantiate \/ Execute

Spec == Init /\ [][Next]_vars

\* Two contracts instantiated independently of each other, each from empty storage
InstantiateRun(k) ==
    /\ runs[k] = NoRun
    /\ \E blk \in RunBlocks, sender \in Senders, msg \in RunMsgs :
        LET env == [block |-> blk]
            info == [sender |-> sender]
            res == instantiate(Ctx(EmptyStorage), env, info, msg)
        IN runs' = [runs EXCEPT ![k] =
                       [ result  |-> res.result,
                         env     |-> env,
                         info    |-> info,
                         msg     |-> msg,
                         storage |-> Commit(EmptyStorage, res) ]]
    /\ UNCHANGED <<block, storage, phase, last, requests>>

NextTwoRuns == \E k \in 1..2 : InstantiateRun(k)

SpecTwoRuns == Init /\ [][NextTwoRuns]_vars

----------------------------------------------------------------------------
(* What the claims speak of, read off the last request and the storage *)

Instantiated == last.kind = "instantiate"
InstantiatedOk == Instantiated /\ last.result = "Ok"

RequestedFieldSize ==
    IF last.msg.field_size = <<>> THEN 64 ELSE last.msg.field_size[1]

Entries == last.msg.network_configs

PowerupsMalformed(config) ==
    \/ Len(config.power_ups) # 3
    \/ \E i, j \in 1..Len(config.power_ups) :
          i < j /\ config.power_ups[i][1] = config.power_ups[j][1]

BridgedWithoutChannel(entry) ==
    /\ Len(entry[1]) >= 4
    /\ <<entry[1][1], entry[1][2], entry[1][3], entry[1][4]>> = <<"i", "b", "c", "/">>
    /\ entry[2].channel_id = <<>>

EntryPasses(entry) == ~PowerupsMalformed(entry[2]) /\ ~BridgedWithoutChannel(entry)

SharedChainId(list) ==
    \E i, j \in 1..Len(list) : i < j /\ list[i][2].chain_id = list[j][2].chain_id

NothingPersisted ==
    /\ storage.field_size = <<>>
    /\ DOMAIN storage.network_configs = {}
    /\ storage.config = <<>>
    /\ DOMAIN storage.cells = {}

----------------------------------------------------------------------------
(* Claims *)

\* C1: a successful instantiate stores exactly field_size cells, keyed
\* 1..field_size, each with random in 0..254 and open_at the block time of
\* the request.
C1_CellsInitialised ==
    InstantiatedOk =>
        /\ DOMAIN storage.cells = 1..RequestedFieldSize
        /\ Cardinality(DOMAIN storage.cells) = RequestedFieldSize
        /\ 0 \notin DOMAIN storage.cells
        /\ (RequestedFieldSize + 1) \notin DOMAIN storage.cells
        /\ \A i \in DOMAIN storage.cells :
              /\ storage.cells[i].random \in 0..254
              /\ storage.cells[i].open_at = last.env.block.time

C1_Witness ==
    /\ InstantiatedOk
    /\ last.msg.field_size = <<3>>
    /\ DOMAIN storage.cells = {1, 2, 3}

\* C2 as stated: two entries with the same chain_id make instantiate fail
\* with DuplicateChainIds, whatever else the request holds, and nothing is
\* persisted.
C2_AsStated ==
    (Instantiated /\ SharedChainId(Entries)) =>
        /\ last.result = "DuplicateChainIds"
        /\ NothingPersisted

\* C2 as amended: two entries with the same chain_id make instantiate fail
\* and nothing is persisted; the error is DuplicateChainIds when the field
\* size is accepted and every entry passes its powerup and channel checks.
C2_DuplicateChainIdsRollback ==
    (Instantiated /\ SharedChainId(Entries)) =>
        /\ last.result # "Ok"
        /\ NothingPersisted
        /\ ( ( /\ valid_field_size(RequestedFieldSize)
               /\ \A i \in 1..Len(Entries) : EntryPasses(Entries[i]) )
             => last.result = "DuplicateChainIds" )

C2_Witness ==
    /\ Instantiated
    /\ SharedChainId(Entries)
    /\ last.result = "DuplicateChainIds"
    /\ \E w \in 1..Len(last.writes) : last.writes[w].store = "NETWORK_CONFIGS"
    /\ NothingPersisted

\* C3 as stated: a config whose powerups are not exactly 3 of distinct types
\* makes instantiate fail with InvalidPowerupAmounts, and every registered
\* config has exactly 3 powerups of pairwise-distinct types.
C3_AsStated ==
    /\ (Instantiated /\ \E i \in 1..Len(Entries) : PowerupsMalformed(Entries[i][2]))
          => last.result = "InvalidPowerupAmounts"
    /\ \A d \in DOMAIN storage.network_configs :
          ~PowerupsMalformed(storage.network_configs[d])

\* C3 as amended: such a config makes instantiate fail; the error is
\* InvalidPowerupAmounts when the field size is accepted and every earlier
\* entry passes its own checks; every registered config has exactly 3
\* powerups of pairwise-distinct types.
C3_PowerupAmounts ==
    /\ Instantiated =>
          \A i \in 1..Len(Entries) :
              PowerupsMalformed(Entries[i][2]) =>
                  /\ last.result # "Ok"
                  /\ ( ( /\ valid_field_size(RequestedFieldSize)
                         /\ \A j \in 1..(i - 1) : EntryPasses(Entries[j]) )
                       => last.result = "InvalidPowerupAmounts" )
    /\ \A d \in DOMAIN storage.network_configs :
          ~PowerupsMalformed(storage.network_configs[d])

C3_Witness ==
    /\ Instantiated
    /\ Len(Entries) = 2
    /\ EntryPasses(Entries[1])
    /\ Len(Entries[2][2].power_ups) = 4
    /\ last.result = "InvalidPowerupAmounts"

\* C4 as stated: a denomination starting with "ibc/" and carrying no
\* channel_id makes instantiate fail with MissingChannelId.
C4_AsStated ==
    (Instantiated /\ \E i \in 1..Len(Entries) : BridgedWithoutChannel(Entries[i]))
        => last.result = "MissingChannelId"

\* C4 as amended: such a denomination makes instantiate fail; the error is
\* MissingChannelId when the field size is accepted, every earlier entry
\* passes its own checks and the entry's own powerups are well formed.
C4_MissingChannelId ==
    Instantiated =>
        \A i \in 1..Len(Entries) :
            BridgedWithoutChannel(Entries[i]) =>
                /\ last.result # "Ok"
                /\ ( ( /\ valid_field_size(RequestedFieldSize)
                       /\ \A j \in 1..(i - 1) : EntryPasses(Entries[j])
                       /\ ~PowerupsMalformed(Entries[i][2]) )
                     => last.result = "MissingChannelId" )

C4_Witness ==
    /\ Instantiated
    /\ Len(Entries) = 2
    /\ EntryPasses(Entries[1])
    /\ BridgedWithoutChannel(Entries[2])
    /\ last.result = "MissingChannelId"

\* C5: a field size (given, or the default 64) that valid_field_size does
\* not accept makes instantiate fail with InvalidFieldSize before any write,
\* whatever the other inputs are.
C5_InvalidFieldSizeWritesNothing ==
    (Instantiated /\ ~valid_field_size(RequestedFieldSize)) =>
        /\ last.result = "InvalidFieldSize"
        /\ last.writes = <<>>
        /\ NothingPersisted

C5_Witness ==
    /\ Instantiated
    /\ ~valid_field_size(RequestedFieldSize)
    /\ Len(Entries) = 2
    /\ \A i \in 1..Len(Entries) : EntryPasses(Entries[i])
    /\ last.result = "InvalidFieldSize"

\* C6: once instantiate has succeeded, no two registered network configs
\* share a chain_id.
C6_ChainIdsDistinct ==
    phase = "live" =>
        \A d1, d2 \in DOMAIN storage.network_configs :
            d1 # d2 =>
                storage.network_configs[d1].chain_id # storage.network_configs[d2].chain_id

C6_Witness ==
    /\ InstantiatedOk
    /\ Cardinality(DOMAIN storage.network_configs) = 2

\* C7: the stored Config holds the supplied win_threshold, cell_cooldown and
\* user_cooldown, and otherwise 490, 172800 and 86400; a missing field_size
\* is stored as 64.
C7_ConfigDefaults ==
    InstantiatedOk =>
        /\ storage.config =
              << [ win_threshold |-> IF last.msg.win_threshold = <<>>
                                     THEN 490 ELSE last.msg.win_threshold[1],
                   cell_cooldown |-> IF last.msg.cell_cooldown = <<>>
                                     THEN 172800 ELSE last.msg.cell_cooldown[1],
                   user_cooldown |-> IF last.msg.user_cooldown = <<>>
                                     THEN 86400 ELSE last.msg.user_cooldown[1] ] >>
        /\ storage.field_size =
              IF last.msg.field_size = <<>> THEN <<64>> ELSE last.msg.field_size

C7_Witness ==
    /\ InstantiatedOk
    /\ last.msg.field_size = <<>>
    /\ last.msg.win_threshold = <<>>
    /\ last.msg.cell_cooldown = <<>>
    /\ last.msg.user_cooldown = <<>>
    /\ storage.config[1].win_threshold = 490

\* C8: two instantiations with the same block and the same sender store the
\* same random value under every cell id both hold, and the same cells when
\* their field sizes are equal, whatever the rest of the two requests.
C8_Deterministic ==
    ( /\ runs[1].result = "Ok"
      /\ runs[2].result = "Ok"
      /\ runs[1].env.block = runs[2].env.block
      /\ runs[1].info.sender = runs[2].info.sender )
    =>
        LET c1 == runs[1].storage.cells
            c2 == runs[2].storage.cells
        IN /\ \A i \in (DOMAIN c1) \cap (DOMAIN c2) : c1[i].random = c2[i].random
           /\ runs[1].storage.field_size = runs[2].storage.field_size
                 => DOMAIN c1 = DOMAIN c2

C8_Witness ==
    /\ runs[1].result = "Ok"
    /\ runs[2].result = "Ok"
    /\ runs[1].env.block = runs[2].env.block
    /\ runs[1].info.sender = runs[2].info.sender
    /\ runs[1].storage.field_size = runs[2].storage.field_size
    /\ runs[1].msg.cell_cooldown # runs[2].msg.cell_cooldown
    /\ runs[1].msg.network_configs # runs[2].msg.network_configs
    /\ \A i \in DOMAIN runs[1].storage.cells :
          runs[1].storage.cells[i].random = runs[2].storage.cells[i].random

\* C9: an OpenCell or BuyPowerups request whose permit does not resolve
\* fails with the resolver's error, reaches no engine and changes no state;
\* a request that reaches an engine reaches it once, for the address the
\* permit resolves to.
C9_PermitBeforeEngine ==
    [][ requests' = requests + 1 =>
          LET resolved == address_from_permit(storage, last'.env, last'.msg.permit) IN
          /\ resolved.err # "" =>
                /\ last'.result = resolved.err
                /\ last'.calls = <<>>
                /\ last'.writes = <<>>
                /\ storage' = storage
          /\ resolved.err = "" =>
                /\ Len(last'.calls) = 1
                /\ last'.calls[1].user = resolved.addr
                /\ last'.calls[1].fn = IF last'.msg.type = "OpenCell"
                                       THEN "try_opening_cell"
                                       ELSE "try_buying_powerups" ]_vars

C9_Witness ==
    /\ last.kind = "execute"
    /\ last.result = "Ok"
    /\ Len(last.calls) = 1
    /\ last.calls[1].user = last.msg.permit.signer
    /\ last.calls[1].user # last.info.sender
    /\ last.calls[1].user \in DOMAIN storage.user_last_open

\* C10: within a successful instantiate each denomination key of
\* NETWORK_CONFIGS is written at most once.
C10_WriteOncePerDenom ==
    InstantiatedOk =>
        \A i, j \in 1..Len(last.writes) :
            ( /\ i < j
              /\ last.writes[i].store = "NETWORK_CONFIGS"
              /\ last.writes[j].store = "NETWORK_CONFIGS" )
            => last.writes[i].key # last.writes[j].key

====
